---- MODULE Spec2Model ----
(***************************************************************************)
(* Career Graph Explorer (src/app.py): the Streamlit script as a state     *)
(* machine.  One step of Spec is one run of the script (a "render pass"),  *)
(* started either by a user interaction with a widget or by st.rerun().    *)
(* SpecAssemble is the graph build loop of the layout section, run on      *)
(* bounded results.                                                        *)
(*                                                                         *)
(* Units: token_usage is counted in quarter tokens (the code adds len/4),  *)
(* session_cost in units of 2.5e-8 dollars (the code adds                  *)
(* in/4/1000*0.0001 + out/4/1000*0.0002), so both stay integers.           *)
(***************************************************************************)
EXTENDS Integers, Sequences, FiniteSets, TLC

VARIABLES
    session_state,  \* st.session_state: mode, search terms, graph_data, history, counters
    radio,          \* value of the "Select Explorer Mode" radio widget
    api_key,        \* TRUE iff GEMINI_API_KEY resolves to a non-empty value
    pending,        \* TRUE iff the last pass ended in st.rerun()
    shown,          \* node ids of the graph on screen after the last pass ({} if none)
    pass,           \* what the last pass did (its locals and its fetch outcome)
    build           \* the graph build loop: input, position, nodes, edges, node_ids

vars == <<session_state, radio, api_key, pending, shown, pass, build>>

-----------------------------------------------------------------------------
(* Bounds *)

MaxReplyLen == 1
MaxTokenUsage == 6
MaxConns == 2
MaxSubs == 1

-----------------------------------------------------------------------------
(* Values *)

Discovery == "Company Discovery"
RoleSearch == "Role Search"
Modes == {Discovery, RoleSearch}

DefaultCompany == "OpenAI"
DefaultRole == "Project Manager"

\* Names the model may return (never empty) and texts the user may type.
EntityNames == {"OpenAI", "Anthropic"}
UserTexts == {"", "openai"}
\* Names of the results the graph build loop is run on.
BuildNames == EntityNames \cup {"Mistral"}

\* Python's None for graph_data and for a failed get_gemini_response.
None == [none |-> TRUE]
\* What dict.get('name') yields on a missing key: equal to no text.
NoName == "<None>"

InitialState ==
    [mode |-> Discovery,
     company_search_term |-> DefaultCompany,
     role_search_term |-> DefaultRole,
     graph_data |-> None,
     history |-> <<>>,
     token_usage |-> 0,
     session_cost |-> 0]

-----------------------------------------------------------------------------
(* Results of the model *)

SubConnection(n) == [name |-> n]
ConnectionWith(n, subs) == [name |-> n, sub_connections |-> subs]
ConnectionBare(n) == [name |-> n]

\* Connection lists the provider returns in the session model: none, or one
\* connection with one sub-connection of another name.
ReplyConnectionLists ==
    {<<>>} \cup {<<ConnectionWith(p[1], <<SubConnection(p[2])>>)>> :
                    p \in {q \in EntityNames \X EntityNames : q[1] # q[2]}}

FullObjects ==
    {[center_node |-> [name |-> c], connections |-> l] :
        c \in EntityNames, l \in ReplyConnectionLists}

\* Objects that parse but lack a required field.
PartialObjects ==
    {[connections |-> <<>>],
     [center_node |-> [type |-> "Company"], connections |-> <<>>]}
        \cup {[center_node |-> [name |-> c]] : c \in EntityNames}

\* What generate_content / response.text / json.loads can produce.
\*   raise   : the provider call (or reading response.text) raises
\*   invalid : the text is not JSON
\*   empty   : the text parses to a falsy value ({}, [], null, 0, "")
\*   array   : the text parses to a truthy value that is no dict
\*   object  : the text parses to a non-empty dict
Replies ==
    {[kind |-> "raise", len |-> 0]}
        \cup {[kind |-> k, len |-> l] : k \in {"invalid", "empty", "array"}, l \in 0..MaxReplyLen}
        \cup {[kind |-> "object", len |-> l, value |-> o] :
                l \in 1..MaxReplyLen, o \in FullObjects \cup PartialObjects}

\* len(user_prompt) in the unit of the counters: the instruction text of the
\* mode counts one unit and is never empty; the length of the query and of
\* the filter values inside it is not modelled.
PromptLen(mode, query) == 1


-----------------------------------------------------------------------------
(* Section 5, "Build Graph": nodes, edges and node_ids *)

Graph(nodes, edges, node_ids) == [nodes |-> nodes, edges |-> edges, node_ids |-> node_ids]

Node(id, size, shape) == [id |-> id, size |-> size, shape |-> shape]
Edge(source, target) == [source |-> source, target |-> target]

\* Center node (layer 0): appended and registered unconditionally.
AddCenter(center_info, active_mode) ==
    Graph(<<Node(center_info.name, 45, IF active_mode = Discovery THEN "dot" ELSE "square")>>,
          <<>>,
          {center_info.name})

\* Variant: the name is registered in node_ids before the test of line 435,
\* so no layer-1 node is ever appended.
AddConnectionRegistersFirst(g, center_info, item, active_mode) ==
    Graph(g.nodes,
          Append(g.edges, Edge(center_info.name, item.name)),
          g.node_ids \cup {item.name})

\* Layer 1: a node only for a name not yet in node_ids, then always an edge
\* from the center.
AddConnection(g, center_info, item, active_mode) ==
    LET l1_shape == IF active_mode = RoleSearch THEN "diamond" ELSE "dot"
        nodes == IF item.name \notin g.node_ids
                 THEN Append(g.nodes, Node(item.name, 30, l1_shape))
                 ELSE g.nodes
    IN  Graph(nodes,
              Append(g.edges, Edge(center_info.name, item.name)),
              g.node_ids \cup {item.name})

\* Variant: the node_ids test of line 467 is missing.
AddSubAlwaysNode(g, item, sub, active_mode) ==
    Graph(Append(g.nodes, Node(sub.name, 20, IF active_mode = RoleSearch THEN "star" ELSE "dot")),
          Append(g.edges, Edge(item.name, sub.name)),
          g.node_ids \cup {sub.name})

\* Layer 2: a node only for a name not yet in node_ids, then always an edge
\* from the layer-1 item.
AddSub(g, item, sub, active_mode) ==
    LET l2_shape == IF active_mode = RoleSearch THEN "star" ELSE "dot"
        nodes == IF sub.name \notin g.node_ids
                 THEN Append(g.nodes, Node(sub.name, 20, l2_shape))
                 ELSE g.nodes
    IN  Graph(nodes,
              Append(g.edges, Edge(item.name, sub.name)),
              g.node_ids \cup {sub.name})

\* item['sub_connections'] when the key is present, no iterations otherwise.
SubsOf(item) ==
    IF "sub_connections" \in DOMAIN item THEN item.sub_connections ELSE <<>>

RECURSIVE AddSubsFrom(_, _, _, _)
AddSubsFrom(g, item, j, active_mode) ==
    IF j > Len(SubsOf(item)) THEN g
    ELSE AddSubsFrom(AddSub(g, item, SubsOf(item)[j], active_mode), item, j + 1, active_mode)

RECURSIVE AddConnectionsFrom(_, _, _, _)
AddConnectionsFrom(g, data, i, active_mode) ==
    IF i > Len(data.connections) THEN g
    ELSE AddConnectionsFrom(
            AddSubsFrom(AddConnection(g, data.center_node, data.connections[i], active_mode),
                        data.connections[i], 1, active_mode),
            data, i + 1, active_mode)

\* The whole of lines 400-486 on one result.
BuildGraph(data, active_mode) ==
    AddConnectionsFrom(AddCenter(data.center_node, active_mode), data, 1, active_mode)

-----------------------------------------------------------------------------
(* Section 2: get_gemini_response *)

\* Values json.loads can hand back that are no dict.
EmptyValue == [empty |-> TRUE]
ArrayValue == [array |-> TRUE]

\* Python truthiness of what get_gemini_response returned.
Truthy(data) == data # None /\ data # EmptyValue

\* Variant: the key check of lines 89-91 is skipped.
InitializeGeminiUnchecked(key) == TRUE

\* initialize_gemini: a model object, or None when no key is configured.
InitializeGemini(key) == key

\* Returns the session state after the call, the returned data, and whether
\* generate_content was invoked.  in_len is len(user_prompt), reply.len is
\* len(response.text).
GetGeminiResponse(ss, key, reply, in_len) ==
    IF ~InitializeGemini(key)
    THEN [state |-> ss, data |-> None, called |-> FALSE, outcome |-> "no_key"]
    ELSE IF reply.kind = "raise"
    THEN [state |-> ss, data |-> None, called |-> TRUE, outcome |-> "raise"]
    ELSE
        LET counted == [ss EXCEPT !.token_usage = @ + (in_len + reply.len),
                                  !.session_cost = @ + (in_len + 2 * reply.len)]
        IN  CASE reply.kind = "invalid" ->
                    [state |-> counted, data |-> None, called |-> TRUE, outcome |-> "invalid"]
              [] reply.kind = "empty" ->
                    [state |-> counted, data |-> EmptyValue, called |-> TRUE, outcome |-> "empty"]
              [] reply.kind = "array" ->
                    [state |-> counted, data |-> ArrayValue, called |-> TRUE, outcome |-> "array"]
              [] reply.kind = "object" ->
                    [state |-> counted, data |-> reply.value, called |-> TRUE, outcome |-> "object"]

-----------------------------------------------------------------------------
(* Section 4: main logic *)

\* The search term the active mode reads.
ActiveQuery(ss, active_mode) ==
    IF active_mode = Discovery THEN ss.company_search_term ELSE ss.role_search_term

\* graph_data.get('center_node', {}).get('name')
CenterName(data) ==
    IF "center_node" \in DOMAIN data /\ "name" \in DOMAIN data.center_node
    THEN data.center_node.name
    ELSE NoName

\* Lines 354-360.
ShouldFetch(graph_data, active_mode, active_query) ==
    IF graph_data = None THEN TRUE
    ELSE IF graph_data.mode # active_mode THEN TRUE
    ELSE IF CenterName(graph_data) # active_query THEN TRUE
    ELSE FALSE

\* Variant: the membership test is missing.
AppendHistoryAlways(history, real_name) == Append(history, real_name)

\* Lines 373-375: history.append(real_name) unless present.
AppendHistory(history, real_name) ==
    IF \E k \in 1..Len(history) : history[k] = real_name
    THEN history
    ELSE Append(history, real_name)

\* Variant: the Role Search branch is missing, so the role term keeps the
\* text the user typed.
ModeUpdatesRoleTermKept(ss, active_mode, active_query, real_name) ==
    IF active_mode = Discovery
    THEN [ss EXCEPT !.history = AppendHistory(@, real_name),
                    !.company_search_term = IF active_query # real_name THEN real_name ELSE @]
    ELSE ss

\* Lines 372-382: the per-mode updates after a result was stored.
ModeUpdates(ss, active_mode, active_query, real_name) ==
    IF active_mode = Discovery
    THEN [ss EXCEPT !.history = AppendHistory(@, real_name),
                    !.company_search_term = IF active_query # real_name THEN real_name ELSE @]
    ELSE [ss EXCEPT !.role_search_term = IF active_query # real_name THEN real_name ELSE @]

\* Lines 365-384 for truthy data.  end is "rerun" (st.rerun() reached) or
\* "crash" (an uncaught exception ended the script run).
StoreResult(ss, data, active_mode, active_query) ==
    IF data = ArrayValue
    THEN [state |-> ss, end |-> "crash", outcome |-> "array"]
    ELSE
        LET stored == [ss EXCEPT !.graph_data = [mode |-> active_mode] @@ data]
        IN  IF "center_node" \notin DOMAIN data
            THEN [state |-> stored, end |-> "crash", outcome |-> "no_center"]
            ELSE IF "name" \notin DOMAIN data.center_node
            THEN [state |-> stored, end |-> "crash", outcome |-> "no_name"]
            ELSE [state |-> ModeUpdates(stored, active_mode, active_query, data.center_node.name),
                  end |-> "rerun", outcome |-> "stored"]

\* Lines 341-384.  end is "stop" (st.stop() on an empty query), "rerun",
\* "crash", or "render" (the script goes on to the layout section).
MainLogic(ss, key, reply, in_len) ==
    LET active_mode == ss.mode
        active_query == ActiveQuery(ss, active_mode)
    IN  IF active_query = ""
        THEN [state |-> ss, end |-> "stop", should_fetch |-> FALSE,
              called |-> FALSE, outcome |-> "none", active_query |-> active_query]
        ELSE IF ~ShouldFetch(ss.graph_data, active_mode, active_query)
        THEN [state |-> ss, end |-> "render", should_fetch |-> FALSE,
              called |-> FALSE, outcome |-> "none", active_query |-> active_query]
        ELSE
            LET r == GetGeminiResponse(ss, key, reply, in_len)
            IN  IF Truthy(r.data)
                THEN LET s == StoreResult(r.state, r.data, active_mode, active_query)
                     IN  [state |-> s.state, end |-> s.end, should_fetch |-> TRUE,
                          called |-> r.called, outcome |-> s.outcome,
                          active_query |-> active_query]
                ELSE [state |-> r.state, end |-> "render", should_fetch |-> TRUE,
                      called |-> r.called, outcome |-> r.outcome,
                      active_query |-> active_query]

-----------------------------------------------------------------------------
(* Section 3: sidebar controls *)

\* Variant: launching also restarts the token counter.
LaunchAnalysisResetsUsage(ss, mode, user_input) ==
    LET termed == IF mode = Discovery
                  THEN [ss EXCEPT !.company_search_term = user_input]
                  ELSE [ss EXCEPT !.role_search_term = user_input]
    IN  [termed EXCEPT !.graph_data = None, !.mode = mode, !.token_usage = 0]

\* Lines 265-274: the "Launch Analysis" button.
LaunchAnalysisButton(ss, mode, user_input) ==
    LET termed == IF mode = Discovery
                  THEN [ss EXCEPT !.company_search_term = user_input]
                  ELSE [ss EXCEPT !.role_search_term = user_input]
    IN  [termed EXCEPT !.graph_data = None, !.mode = mode]

\* Variant: the cost counter is not reset.
ClearSessionKeepsCost(ss) ==
    [ss EXCEPT !.history = <<>>,
               !.graph_data = None,
               !.company_search_term = DefaultCompany,
               !.role_search_term = DefaultRole,
               !.token_usage = 0]

\* Lines 277-284: the "Clear Session" button.
ClearSessionButton(ss) ==
    [ss EXCEPT !.history = <<>>,
               !.graph_data = None,
               !.company_search_term = DefaultCompany,
               !.role_search_term = DefaultRole,
               !.token_usage = 0,
               !.session_cost = 0]

\* Lines 223-284.  button is "launch", "clear" or "none"; end is "launch" or
\* "clear" (the button handler ended the pass in st.rerun()) or "main".
Sidebar(ss, mode, button, user_input) ==
    LET moded == [ss EXCEPT !.mode = mode]
    IN  CASE button = "launch" ->
                [state |-> LaunchAnalysisButton(moded, mode, user_input), end |-> "launch"]
          [] button = "clear" ->
                [state |-> ClearSessionButton(moded), end |-> "clear"]
          [] OTHER ->
                [state |-> moded, end |-> "main"]

-----------------------------------------------------------------------------
(* Section 5: layout rendering and the interaction handler *)

NoClick == "<no click>"

\* Lines 604-608.
InteractionHandler(ss, clicked_node) ==
    [ss EXCEPT !.mode = Discovery,
               !.company_search_term = clicked_node,
               !.graph_data = None]

\* Variant: the handler is not limited to Company Discovery.
HandlerFiresAnyMode(clicked_node, center_info, active_mode) ==
    /\ clicked_node # NoClick
    /\ clicked_node # center_info.name

\* Line 604: the handler's condition.
HandlerFires(clicked_node, center_info, active_mode) ==
    /\ clicked_node # NoClick
    /\ clicked_node # center_info.name
    /\ active_mode = Discovery

\* Lines 387-617.  click is the node the user clicked to start this pass (or
\* NoClick), email whether the "Draft Email" button started it.  end is
\* "landing" (no data), "crash" (a required key is missing), "pivot" (the
\* handler ended the pass in st.rerun()) or "shown".
Render(ss, key, click, email) ==
    LET data == ss.graph_data
        active_mode == ss.mode
    IN  IF data = None
        THEN [state |-> ss, end |-> "landing", shown |-> {}, emailed |-> FALSE]
        ELSE IF \/ "center_node" \notin DOMAIN data
                \/ "connections" \notin DOMAIN data
                \/ "name" \notin DOMAIN data.center_node
        THEN [state |-> ss, end |-> "crash", shown |-> {}, emailed |-> FALSE]
        ELSE
            LET g == BuildGraph(data, active_mode)
                clicked_node == IF click \in g.node_ids THEN click ELSE NoClick
                selected_node_name ==
                    IF clicked_node # NoClick THEN clicked_node ELSE data.center_node.name
                emailed == /\ email
                           /\ active_mode = Discovery
                           /\ selected_node_name = data.center_node.name
                           /\ InitializeGemini(key)
            IN  IF HandlerFires(clicked_node, data.center_node, active_mode)
                THEN [state |-> InteractionHandler(ss, clicked_node), end |-> "pivot",
                      shown |-> {}, emailed |-> emailed]
                ELSE [state |-> ss, end |-> "shown", shown |-> g.node_ids, emailed |-> emailed]

-----------------------------------------------------------------------------
(* One run of the script *)

RunScript(ss, mode, button, user_input, click, email, key, reply, in_len) ==
    LET side == Sidebar(ss, mode, button, user_input)
    IN  IF side.end # "main"
        THEN [state |-> side.state, end |-> side.end, shown |-> {}, should_fetch |-> FALSE,
              called |-> FALSE, outcome |-> "none", emailed |-> FALSE,
              active_query |-> NoName]
        ELSE
            LET main == MainLogic(side.state, key, reply, in_len)
            IN  IF main.end # "render"
                THEN [state |-> main.state,
                      end |-> IF main.end = "rerun" THEN "stored" ELSE main.end,
                      shown |-> {}, should_fetch |-> main.should_fetch,
                      called |-> main.called, outcome |-> main.outcome, emailed |-> FALSE,
                      active_query |-> main.active_query]
                ELSE
                    LET view == Render(main.state, key, click, email)
                    IN  [state |-> view.state, end |-> view.end, shown |-> view.shown,
                         should_fetch |-> main.should_fetch, called |-> main.called,
                         outcome |-> main.outcome, emailed |-> view.emailed,
                         active_query |-> main.active_query]

\* The pass ended in st.rerun().
EndsInRerun(end) == end \in {"launch", "clear", "stored", "pivot"}

\* What a pass leaves behind for the next one to be compared with: the event
\* that started it, the clicked node, its active_query (NoName when the pass
\* ended in the sidebar), how it ended, should_fetch, whether generate_content
\* was invoked by the fetch, the fetch outcome, and whether an email was drafted.
PassRecord(event, click, active_query, end, should_fetch, called, outcome, emailed) ==
    [event |-> event, click |-> click, active_query |-> active_query, end |-> end,
     should_fetch |-> should_fetch, called |-> called, outcome |-> outcome,
     emailed |-> emailed]

NoPass == PassRecord("start", NoClick, NoName, "start", FALSE, FALSE, "none", FALSE)

\* The provider calls a pass can observe: every prompt length and reply when
\* the pass reaches generate_content (no button pressed, a key configured, a
\* non-empty query, should_fetch), and one unread call otherwise.
CallsRead(ss, mode, button, key) ==
    IF /\ button = "none"
       /\ InitializeGemini(key)
       /\ ActiveQuery(ss, mode) # ""
       /\ ShouldFetch(ss.graph_data, mode, ActiveQuery(ss, mode))
    THEN {[reply |-> reply, in_len |-> PromptLen(mode, ActiveQuery(ss, mode))] :
            reply \in Replies}
    ELSE {[reply |-> [kind |-> "raise", len |-> 0], in_len |-> 0]}

Pass(event, mode, button, user_input, click, email) ==
    \E call \in CallsRead(session_state, mode, button, api_key) :
        \E r \in {RunScript(session_state, mode, button, user_input, click, email,
                           api_key, call.reply, call.in_len)} :
            /\ r.state.token_usage <= MaxTokenUsage
            /\ session_state' = r.state
            /\ radio' = mode
            /\ pending' = EndsInRerun(r.end)
            /\ shown' = r.shown
            /\ pass' = PassRecord(event, click, r.active_query, r.end, r.should_fetch,
                                  r.called, r.outcome, r.emailed)
            /\ UNCHANGED <<api_key, build>>

BuildIdle == [pc |-> "idle"]

Init ==
    /\ session_state = InitialState
    /\ radio = Discovery
    /\ api_key \in BOOLEAN
    /\ pending = TRUE
    /\ shown = {}
    /\ pass = NoPass
    /\ build = BuildIdle

\* The first run of the script, and every run st.rerun() starts.
Rerun ==
    /\ pending
    /\ Pass("rerun", radio, "none", "", NoClick, FALSE)

\* The user presses "Launch Analysis" with the text box holding user_input
\* (the active term when nothing was typed).
LaunchAnalysis ==
    /\ ~pending
    /\ \E user_input \in UserTexts \cup {ActiveQuery(session_state, radio)} :
           Pass("launch", radio, "launch", user_input, NoClick, FALSE)

ClearSession ==
    /\ ~pending
    /\ Pass("clear", radio, "clear", "", NoClick, FALSE)

\* The user picks the other mode in the radio.
SelectMode ==
    /\ ~pending
    /\ \E m \in Modes \ {radio} : Pass("radio", m, "none", "", NoClick, FALSE)

\* The user changes a filter select box or commits text without launching:
\* the script runs again with the same session state.
ChangeWidget ==
    /\ ~pending
    /\ Pass("widget", radio, "none", "", NoClick, FALSE)

\* The user clicks a node of the graph on screen.
ClickNode ==
    /\ ~pending
    /\ \E n \in shown : Pass("click", radio, "none", "", n, FALSE)

\* The user presses "Draft Email to Recruiter" (offered in Company Discovery
\* while the center node is selected).
DraftEmail ==
    /\ ~pending
    /\ shown # {}
    /\ session_state.mode = Discovery
    /\ Pass("email", radio, "none", "", NoClick, TRUE)

\* The operator adds or removes GEMINI_API_KEY (secrets and environment are
\* read anew by every initialize_gemini call).
ConfigureKey ==
    /\ ~pending
    /\ api_key' = ~api_key
    /\ pass' = PassRecord("configure", NoClick, NoName, "none", FALSE, FALSE, "none", FALSE)
    /\ UNCHANGED <<session_state, radio, pending, shown, build>>

Next ==
    \/ Rerun
    \/ LaunchAnalysis
    \/ ClearSession
    \/ SelectMode
    \/ ChangeWidget
    \/ ClickNode
    \/ DraftEmail
    \/ ConfigureKey

Spec == Init /\ [][Next]_vars

-----------------------------------------------------------------------------
(* Properties of the session *)

GraphData == session_state.graph_data
History == session_state.history

\* The events that start a run of the script.
PassEvents == {"rerun", "launch", "clear", "radio", "widget", "click", "email"}

\* A result with every field the layout section reads.
Complete(data) ==
    /\ data # None
    /\ "center_node" \in DOMAIN data
    /\ "connections" \in DOMAIN data
    /\ "name" \in DOMAIN data.center_node

\* The stored result does not answer (mode, query).
Differs(data, mode, query) ==
    IF data = None THEN TRUE
    ELSE \/ data.mode # mode
         \/ "center_node" \notin DOMAIN data
         \/ "name" \notin DOMAIN data.center_node
         \/ data.center_node.name # query

\* C1: the pass that follows a successful fetch is the rerun, computes
\* should_fetch = FALSE and calls the model no second time, in both modes and
\* also when the canonical name replaced the typed text; and a pass that
\* reaches the decision computes should_fetch = TRUE exactly when the stored
\* result is absent or differs from the active mode or the active query.
C1_NoRefetchAfterSuccess ==
    [][/\ pass.outcome = "stored" =>
            /\ pass'.event = "rerun"
            /\ ~pass'.should_fetch
            /\ ~pass'.called
       /\ (pass'.event \in PassEvents /\ pass'.end \notin {"launch", "clear", "stop"}) =>
            (pass'.should_fetch <=>
                Differs(GraphData, radio',
                        IF radio' = Discovery THEN session_state.company_search_term
                                              ELSE session_state.role_search_term))
      ]_vars

\* C1 witness: in Role Search the pass after a fetch whose canonical name
\* replaced the typed term has run and did not fetch.
C1_Witness ==
    /\ pass.event = "rerun"
    /\ pass.end = "shown"
    /\ ~pass.should_fetch
    /\ session_state.mode = RoleSearch
    /\ session_state.role_search_term \in EntityNames

\* C2: a pass that fetches leaves graph_data either a complete result or
\* exactly the value it had before the pass (the claim as stated).
C2_AllOrNothing ==
    [][(pass'.event \in PassEvents /\ pass'.should_fetch /\ pass'.end # "pivot") =>
            (Complete(GraphData') \/ GraphData' = GraphData)
      ]_vars

\* C3: with no key configured a pass that attempts a fetch invokes the
\* provider neither for the fetch nor for an email, and leaves token_usage,
\* session_cost and (unless the click handler of the same pass clears it)
\* graph_data unchanged.
C3_NoKeyNoCall ==
    [][(pass'.event \in PassEvents /\ ~api_key /\ pass'.should_fetch) =>
            /\ ~pass'.called
            /\ ~pass'.emailed
            /\ session_state'.token_usage = session_state.token_usage
            /\ session_state'.session_cost = session_state.session_cost
            /\ pass'.end # "pivot" => GraphData' = GraphData
      ]_vars

\* C3 witness: the key was removed after results were fetched, and a pass
\* attempted a fetch.
C3_Witness ==
    /\ ~api_key
    /\ pass.should_fetch
    /\ session_state.token_usage > 0
    /\ GraphData # None

\* A fetch was attempted and stored nothing.
FailedFetch(p) == p.should_fetch /\ p.outcome # "stored"

\* C4: after a failed fetch, a pass started only by a filter or text widget
\* does not call the model (the claim as stated).
C4_NoRetryOnWidgetPass ==
    [][(FailedFetch(pass) /\ pass'.event = "widget") => ~pass'.called]_vars

\* C5: after a successful fetch of a complete result, in either mode, the
\* canonical center name is in history (the claim as stated).
C5_CanonicalNameInHistory ==
    (pass.outcome = "stored" /\ Complete(GraphData)) =>
        \E k \in 1..Len(History) : History[k] = GraphData.center_node.name

\* The session state the interaction handler leaves.
Pivoted(ss, clicked_node) ==
    /\ ss.company_search_term = clicked_node
    /\ ss.mode = Discovery
    /\ ss.graph_data = None

C7_ClearResetsEverything ==
    pass.event = "clear" => session_state = InitialState

\* C7 amended: Clear Session resets both search terms, graph_data, history,
\* token_usage and session_cost to their defaults and leaves the mode at the
\* radio's selection.
C7_ClearResetsAllButMode ==
    [][pass'.event = "clear" =>
            /\ session_state' = [InitialState EXCEPT !.mode = radio]
            /\ radio' = radio
            /\ pending'
      ]_vars

\* C7 witness: Clear Session was pressed in Role Search after tokens were
\* counted; the counters are back at 0 and the mode is still Role Search.
C7_Witness ==
    /\ pass.event = "clear"
    /\ session_state = [InitialState EXCEPT !.mode = RoleSearch]

\* C8 as stated: no step, Clear Session included, lowers token_usage or
\* session_cost.
C8_CountersNeverDecrease ==
    [][/\ session_state'.token_usage >= session_state.token_usage
       /\ session_state'.session_cost >= session_state.session_cost
      ]_vars

\* C8 amended: every step other than Clear Session leaves token_usage and
\* session_cost at least as large as before; Clear Session sets both to 0.
C8_CountersDecreaseOnlyOnClear ==
    [][IF pass'.event = "clear"
       THEN /\ session_state'.token_usage = 0
            /\ session_state'.session_cost = 0
       ELSE /\ session_state'.token_usage >= session_state.token_usage
            /\ session_state'.session_cost >= session_state.session_cost
      ]_vars

\* C8 witness: a call in the last pass brought the counters to positive
\* values, and a launch came before it with the counters kept.
C8_Witness ==
    /\ pass.called
    /\ session_state.token_usage >= 2
    /\ session_state.session_cost > session_state.token_usage

NoDuplicates(h) == \A a, b \in 1..Len(h) : a # b => h[a] # h[b]

IsPrefix(h, k) == Len(h) <= Len(k) /\ \A a \in 1..Len(h) : k[a] = h[a]

\* C9: history never holds a name twice, and a step either empties it (Clear
\* Session) or keeps every entry at its position, adding at most one name at
\* the end.
C9_HistoryDistinctAndOrdered ==
    [][/\ NoDuplicates(History')
       /\ \/ History' = <<>>
          \/ IsPrefix(History, History') /\ Len(History') <= Len(History) + 1
      ]_vars

\* C9 witness: a Discovery fetch stored a result whose name was already the
\* first of two history entries.
C9_Witness ==
    /\ pass.outcome = "stored"
    /\ session_state.mode = Discovery
    /\ Len(History) = 2
    /\ GraphData.center_node.name = History[1]

-----------------------------------------------------------------------------
(* The graph build loop, one iteration per step *)

\* The loop of lines 412-486 on a result with center center_info.  The lists
\* are read as the loops read them, one element per iteration: connections
\* holds the items read so far, the last one with the sub-connections read so
\* far.  pc is "center" (before line 416), "item" (at the head of the outer
\* loop), "sub" (at the head of the inner loop of the last item) or "done".
BuildState(pc, active_mode, center_info, connections, g) ==
    [pc |-> pc, active_mode |-> active_mode, center_info |-> center_info,
     connections |-> connections, g |-> g]

EmptyGraph == Graph(<<>>, <<>>, {})

InitAssemble ==
    /\ session_state = InitialState
    /\ radio = Discovery
    /\ api_key = TRUE
    /\ pending = FALSE
    /\ shown = {}
    /\ pass = NoPass
    /\ \E m \in Modes, c \in BuildNames :
           build = BuildState("center", m, [name |-> c], <<>>, EmptyGraph)

\* Lines 412-425.
BuildCenter ==
    /\ build.pc = "center"
    /\ build' = [build EXCEPT !.pc = "item",
                              !.g = AddCenter(build.center_info, build.active_mode)]
    /\ UNCHANGED <<session_state, radio, api_key, pending, shown, pass>>

\* Lines 427-453: the next item of connections, with or without the
\* sub_connections key.
BuildConnection ==
    /\ build.pc \in {"item", "sub"}
    /\ Len(build.connections) < MaxConns
    /\ \E item \in {ConnectionBare(n) : n \in BuildNames}
                    \cup {ConnectionWith(n, <<>>) : n \in BuildNames} :
           build' = [build EXCEPT
                        !.pc = IF "sub_connections" \in DOMAIN item THEN "sub" ELSE "item",
                        !.connections = Append(@, item),
                        !.g = AddConnection(@, build.center_info, item, build.active_mode)]
    /\ UNCHANGED <<session_state, radio, api_key, pending, shown, pass>>

\* Lines 456-486: the next sub-connection of the item the outer loop is at.
BuildSub ==
    /\ build.pc = "sub"
    /\ \E last \in {Len(build.connections)} :
       \E item \in {build.connections[last]} :
           /\ Len(item.sub_connections) < MaxSubs
           /\ \E sub \in {SubConnection(n) : n \in BuildNames} :
                  build' = [build EXCEPT
                               !.connections[last].sub_connections = Append(@, sub),
                               !.g = AddSub(@, item, sub, build.active_mode)]
    /\ UNCHANGED <<session_state, radio, api_key, pending, shown, pass>>

\* Both lists are exhausted: the loop is left (line 488).
BuildDone ==
    /\ build.pc \in {"item", "sub"}
    /\ build' = [build EXCEPT !.pc = "done"]
    /\ UNCHANGED <<session_state, radio, api_key, pending, shown, pass>>

NextAssemble ==
    \/ BuildCenter
    \/ BuildConnection
    \/ BuildSub
    \/ BuildDone

SpecAssemble == InitAssemble /\ [][NextAssemble]_vars

-----------------------------------------------------------------------------
(* Properties of the graph build *)

\* The names of a result in the order the loops meet them, each with its
\* layer and the name it hangs from: the center, then every connection
\* followed by its sub-connections.
Occurrence(name, layer, parent) == [name |-> name, layer |-> layer, parent |-> parent]

OccurrencesOfItem(center_info, item) ==
    <<Occurrence(item.name, 1, center_info.name)>>
        \o [j \in 1..Len(SubsOf(item)) |-> Occurrence(SubsOf(item)[j].name, 2, item.name)]

RECURSIVE OccurrencesOfItems(_, _, _)
OccurrencesOfItems(center_info, connections, i) ==
    IF i > Len(connections) THEN <<>>
    ELSE OccurrencesOfItem(center_info, connections[i])
            \o OccurrencesOfItems(center_info, connections, i + 1)

Occurrences(center_info, connections) ==
    <<Occurrence(center_info.name, 0, NoName)>>
        \o OccurrencesOfItems(center_info, connections, 1)

\* The first position at which a name occurs.
FirstOccurrence(occ, name) ==
    CHOOSE k \in 1..Len(occ) :
        occ[k].name = name /\ \A h \in 1..(k - 1) : occ[h].name # name

\* The node size that marks a layer.
SizeOfLayer(layer) == CASE layer = 0 -> 45 [] layer = 1 -> 30 [] layer = 2 -> 20

\* C10: over the part of the result read so far, and so at the end of the
\* build, there is exactly one node per distinct name, in the order of first
\* occurrence and with the size of the layer of that first occurrence, and
\* one edge per relation, in order, from the parent to the name.
C10_OneNodePerNameOneEdgePerRelation ==
    build.pc \in {"item", "sub", "done"} =>
        LET occ == Occurrences(build.center_info, build.connections)
            nodes == build.g.nodes
            edges == build.g.edges
        IN  /\ Len(nodes) = Cardinality({occ[k].name : k \in 1..Len(occ)})
            /\ \A a, b \in 1..Len(nodes) : a < b =>
                    /\ nodes[a].id # nodes[b].id
                    /\ FirstOccurrence(occ, nodes[a].id) < FirstOccurrence(occ, nodes[b].id)
            /\ \A a \in 1..Len(nodes) :
                    /\ \E k \in 1..Len(occ) : occ[k].name = nodes[a].id
                    /\ nodes[a].size = SizeOfLayer(occ[FirstOccurrence(occ, nodes[a].id)].layer)
            /\ Len(edges) = Len(occ) - 1
            /\ \A k \in 2..Len(occ) : edges[k - 1] = Edge(occ[k].parent, occ[k].name)

\* C10 witness: the build ended on a result in which "Anthropic" is the first
\* connection and also a sub-connection of the second: three nodes, three
\* edges, two of them ending at "Anthropic".
C10_Witness ==
    /\ build.pc = "done"
    /\ build.center_info.name = "OpenAI"
    /\ Len(build.connections) = 2
    /\ build.connections[1].name = "Anthropic"
    /\ build.connections[2] = ConnectionWith("Mistral", <<SubConnection("Anthropic")>>)
    /\ Len(build.g.nodes) = 3
    /\ Len(build.g.edges) = 3
    /\ Cardinality({k \in 1..3 : build.g.edges[k].target = "Anthropic"}) = 2

\* The ids of the nodes built so far.
NodeIdsOf(g) == {g.nodes[k].id : k \in 1..Len(g.nodes)}

\* C11: at every point of the build and at its end, the source and the target
\* of every edge are ids of nodes already in nodes.
C11_NoDanglingEdges ==
    build.pc \in {"center", "item", "sub", "done"} =>
        \A k \in 1..Len(build.g.edges) :
            /\ build.g.edges[k].source \in NodeIdsOf(build.g)
            /\ build.g.edges[k].target \in NodeIdsOf(build.g)

\* C11 witness: the build ended with an edge whose target got no node of its
\* own at that iteration, because the name already had one.
C11_Witness ==
    /\ build.pc = "done"
    /\ Len(build.g.edges) = 4
    /\ Len(build.g.nodes) = 3
    /\ build.g.edges[4].target = build.g.edges[1].target
    /\ build.g.edges[4].source # build.g.edges[1].source

\* The names an edge of edges leads to from any name of from.
Successors(edges, from) ==
    {edges[k].target : k \in {i \in 1..Len(edges) : edges[i].source \in from}}

\* The names of seen and every name reached from them along the edges.
RECURSIVE ReachedFrom(_, _)
ReachedFrom(edges, seen) ==
    LET more == seen \cup Successors(edges, seen)
    IN  IF more = seen THEN seen ELSE ReachedFrom(edges, more)

OnCycle(edges, n) == n \in ReachedFrom(edges, Successors(edges, {n}))

\* C12: at every point of the build the edges form a cycle-free directed
\* graph: no edge has its source as its target, and no name is reached from
\* itself along the edges (the claim as stated).
C12_CycleFree ==
    /\ \A k \in 1..Len(build.g.edges) :
            build.g.edges[k].source # build.g.edges[k].target
    /\ \A n \in build.g.node_ids : ~OnCycle(build.g.edges, n)

\* C13: whenever the layout section has put a graph on screen, the mode
\* recorded in graph_data is the active mode of that pass, which styles the
\* nodes and gates the interaction handler (the claim as stated).
C13_RenderedModeIsActiveMode ==
    (pass.end = "shown" /\ shown # {} /\ GraphData # None) =>
        GraphData.mode = session_state.mode

====
